---- MODULE Spec2Model ----
(***************************************************************************)
(* State-machine model of the two client-side exporters of advideo:        *)
(*   - ExportService  (video export dialog, src/README.md 215-798)         *)
(*   - AssetExporter  (asset bundle dialog, src/src/components/            *)
(*                     AssetExporter.tsx)                                  *)
(* Every asynchronous function is cut at its awaits: one action per        *)
(* synchronous segment between two suspension points.  React state         *)
(* setters are applied in program order inside a segment.                  *)
(*                                                                         *)
(* Time is counted in ticks of 1/(2*fps) second, so that durations that    *)
(* are not a whole number of frames exist and frameDuration = 1/fps is a   *)
(* whole number of ticks.                                                  *)
(***************************************************************************)
EXTENDS Integers, Sequences, FiniteSets, TLC

VARIABLES
    mounted,        \* which page is mounted: "editor" (ExportService) or "storyboard" (AssetExporter)
    platform,       \* [webCodecs, audioEncoder]: what the browser offers
    timelineItems,  \* ExportService prop
    ve,             \* ExportService component state (useState cells) and its isOpen prop
    ffmpegLoaded,   \* module-level flag
    loadCalls,      \* number of ffmpegInstance.load() invocations
    timers,         \* pending setTimeout callbacks of ExportService.handleClose
    revoked,        \* object URLs passed to URL.revokeObjectURL
    veToast,        \* toast currently shown by ExportService
    exports,        \* the invocations of ExportService.startExport
    confirmPrompt,  \* "shown" while a window.confirm dialog blocks the page, else "none"
    scenes,         \* AssetExporter props: scriptData.scenes.length
    previewUrls,    \* AssetExporter props: the scene indexes that have a preview URL
    videoUrls,      \* AssetExporter props: the scene indexes that have a video URL
    ae,             \* AssetExporter component state (useState cells) and its isOpen prop
    aeToast,        \* toast currently shown by AssetExporter
    aeCalls,        \* calls made to generateSpeech, generateSound and fetch
    aeRuns,         \* the invocations of AssetExporter.startExport
    aeDownloads,    \* the invocations of AssetExporter.handleDownloadScene
    page,           \* StoryboardPage component state (useState cells)
    pageOps,        \* the invocations of the asynchronous handlers of StoryboardPage
    now,            \* wall clock, in milliseconds
    videoCalls      \* the invocations of generateWanVideo and generatePikaVideo

veVars == <<platform, timelineItems, ve, ffmpegLoaded, loadCalls, timers, revoked,
            veToast, exports>>
aeVars == <<scenes, previewUrls, videoUrls, ae, aeToast, aeCalls, aeRuns, aeDownloads>>
sbVars == <<page, pageOps, now, videoCalls>>
vars == <<mounted, veVars, confirmPrompt, aeVars, sbVars>>

----------------------------------------------------------------------------
(* Bounds of the model *)

MaxRuns == 2            \* startExport invocations of one dialog in a behaviour
MaxTimers == 2          \* reset timers pending at the same time
MaxScenes == 2          \* scenes of a script
MaxOverlapScenes == 1   \* scenes of a script whose exports may overlap
ShortDuration == 3      \* ticks: one and a half frames
LongDuration == 61      \* ticks: thirty and a half frames
MaxDownloads == 2       \* handleDownloadScene invocations in a behaviour
MaxCalls == 2           \* generateWanVideo / generatePikaVideo invocations in a behaviour
TickMillis == 300000    \* milliseconds the clock advances in one step
MaxTicks == 4           \* steps of the clock in a behaviour
MaxOps == 3             \* handler invocations of StoryboardPage in a behaviour

(* Program constants *)

fps == 30
StageInterval == 30
KeyFrameInterval == 30
MicrosPerSecond == 1000000
WanTimeout == 600000
PikaTimeout == 900000

TicksPerSecond == 2 * fps
frameDuration == TicksPerSecond \div fps

RunIds == DOMAIN exports

----------------------------------------------------------------------------
(* Timeline *)

\* a timeline item with a source URL
Item(type, start, duration) ==
    [type |-> type, start |-> start, duration |-> duration, src |-> "clip"]

\* a timeline item whose source is "clip", "" (none) or "broken": a source that cannot
\* be drawn, fetched or decoded
SourcedItem(type, start, duration, src) ==
    [type |-> type, start |-> start, duration |-> duration, src |-> src]

ShortTimelines ==
    { <<>>,
      <<Item("video", 0, ShortDuration)>>,
      <<Item("video", 0, ShortDuration), Item("audio", 1, ShortDuration)>> }

LongTimelines ==
    { <<Item("image", 1, 1), Item("video", 0, LongDuration)>> }

\* an image laid over a video, both on screen at every frame time
ImageTimelines ==
    { <<Item("video", 0, ShortDuration), Item("image", 0, ShortDuration + 1)>> }

\* two clips and two audio tracks, the first of each kind with a broken source, and a
\* clip without a source
FaultyTimelines ==
    { <<SourcedItem("video", 0, ShortDuration, "broken"),
        SourcedItem("video", 0, ShortDuration, "clip"),
        SourcedItem("video", 0, ShortDuration, ""),
        SourcedItem("audio", 0, ShortDuration, "broken"),
        SourcedItem("audio", 1, ShortDuration, "clip")>> }

Max(S) == CHOOSE m \in S : \A x \in S : x <= m

\* Math.max(...timelineItems.map(item => item.start + item.duration)), in ticks
TotalDuration(items) ==
    Max({items[k].start + items[k].duration : k \in 1..Len(items)})

\* mutant of TotalFrames: Math.floor in place of Math.ceil
TotalFrames_floor(items) ==
    (TotalDuration(items) * fps) \div TicksPerSecond

\* Math.ceil(totalDuration * fps), totalDuration in ticks
TotalFrames(items) ==
    (TotalDuration(items) * fps + TicksPerSecond - 1) \div TicksPerSecond

\* frameIndex * frameDuration
CurrentTime(frameIndex) == frameIndex * frameDuration

\* new VideoFrame(bitmap, { timestamp: currentTime * 1000000 }), an integer of microseconds
FrameTimestamp(currentTime) == (currentTime * MicrosPerSecond) \div TicksPerSecond

\* mutant of KeyFrame: the keyframe one frame late
KeyFrame_late(frameIndex) == frameIndex % KeyFrameInterval = 1

\* { keyFrame: frameIndex % 30 === 0 }
KeyFrame(frameIndex) == frameIndex % KeyFrameInterval = 0

\* Math.floor(20 + (frameIndex / totalFrames) * 60)
FrameProgress(frameIndex, totalFrames) == 20 + (frameIndex * 60) \div totalFrames

\* drawVideoFrame(item, relativeTime): the placeholder is painted over the whole
\* canvas; a canvas is the sequence of the layers painted on it, layer k item k.  A
\* source that cannot be drawn throws before anything is painted; the catch block logs
drawVideoFrame(canvas, k, item) ==
    IF item.src # ""
    THEN IF item.src = "broken" THEN canvas ELSE Append(canvas, k)
    ELSE canvas

\* VideoCompositor.renderFrame: the canvas is cleared and filled black (layer 0), then
\* the items are gone through in list order
renderFrame(items, currentTime) ==
    LET canvas[k \in 0..Len(items)] ==
            IF k = 0 THEN <<0>>
            ELSE IF /\ items[k].type = "video"
                    /\ currentTime >= items[k].start
                    /\ currentTime < items[k].start + items[k].duration
                 THEN drawVideoFrame(canvas[k - 1], k, items[k])
                 ELSE canvas[k - 1]
    IN  canvas[Len(items)]

\* useState<ExportOptions>({ format: 'mp4', quality: 'standard', size: '720p' })
DefaultOptions == [format |-> "mp4", quality |-> "standard", size |-> "720p"]

ExportFormats == {"mp4", "webm", "gif"}
ExportQualities == {"draft", "standard", "high"}
ExportSizes == {"720p", "1080p", "480p"}

\* getVideoDimensions(size)
getVideoDimensions(size) ==
    CASE size = "1080p" -> [width |-> 1920, height |-> 1080]
      [] size = "720p" -> [width |-> 1280, height |-> 720]
      [] size = "480p" -> [width |-> 854, height |-> 480]
      [] OTHER -> [width |-> 1280, height |-> 720]

\* mutant of getVideoBitrate: the quality is ignored
getVideoBitrate_flat(quality, width, height) ==
    (width * height * 10) \div 100

\* getVideoBitrate(quality, width, height): Math.floor(width * height * 0.1 * m), the
\* factor 0.1 * m counted in hundredths; for the nine presets the double-precision
\* product is the exact one
getVideoBitrate(quality, width, height) ==
    LET hundredths == CASE quality = "high" -> 15
                        [] quality = "standard" -> 10
                        [] quality = "draft" -> 5
                        [] OTHER -> 10
    IN  (width * height * hundredths) \div 100

\* const videoConfig: VideoEncoderConfig = { codec, width, height, bitrate, framerate, ... }
VideoConfig(options) ==
    LET dimensions == getVideoDimensions(options.size)
    IN  [size |-> options.size, quality |-> options.quality,
         width |-> dimensions.width, height |-> dimensions.height,
         bitrate |-> getVideoBitrate(options.quality, dimensions.width, dimensions.height),
         framerate |-> fps]

\* no VideoEncoderConfig built yet
NoConfig ==
    [size |-> "", quality |-> "", width |-> 0, height |-> 0, bitrate |-> 0, framerate |-> 0]

\* mutant of mixAudioTracks: the first item that fails ends the scheduling
mixAudioTracks_abort(items) ==
    LET scheduled[k \in 0..Len(items)] ==
            IF k = 0 THEN <<>>
            ELSE IF /\ items[k].type = "audio"
                    /\ items[k].src \notin {"", "broken"}
                    /\ \A j \in 1..(k - 1) :
                          ~(items[j].type = "audio" /\ items[j].src = "broken")
                 THEN Append(scheduled[k - 1], [item |-> k, when |-> items[k].start])
                 ELSE scheduled[k - 1]
    IN  scheduled[Len(items)]

\* AudioMixer.mixAudioTracks up to startRendering: the sources scheduled, in list
\* order; an audio item whose fetch, decode or start throws is logged and left out
mixAudioTracks(items) ==
    LET scheduled[k \in 0..Len(items)] ==
            IF k = 0 THEN <<>>
            ELSE IF /\ items[k].type = "audio"
                    /\ items[k].src \notin {"", "broken"}
                 THEN Append(scheduled[k - 1], [item |-> k, when |-> items[k].start])
                 ELSE scheduled[k - 1]
    IN  scheduled[Len(items)]

Stage(label) == [label |-> label, n |-> 0, of |-> 0]
FrameStage(frameIndex, totalFrames) ==
    [label |-> "Rendering frame", n |-> frameIndex + 1, of |-> totalFrames]

----------------------------------------------------------------------------
(* ExportService.startExport, segment by segment.  A context c holds the   *)
(* cells a segment writes: the component state, this invocation's locals   *)
(* and the toast.                                                          *)

NoExport ==
    [pc |-> "none", totalFrames |-> 0, frameIndex |-> 0,
     videoEncoder |-> "null", audioEncoder |-> "null", videoConfig |-> NoConfig,
     framesCreated |-> 0, framesClosed |-> 0,
     renderLog |-> <<>>, canvasLog |-> <<>>, encodeLog |-> <<>>, chunks |-> 0,
     closedInLoop |-> FALSE,
     mixedAudio |-> [rendered |-> FALSE, sources |-> <<>>], flushed |-> {},
     outputRead |-> FALSE, progressLog |-> <<>>, stageLog |-> <<>>, oldTimers |-> 0]

InProgress(run) == run.pc \notin {"none", "done", "failed"}

\* catch (error) { toast.error('Export failed', ...); setIsExporting(false); }
Catch(c) ==
    [c EXCEPT !.toast = "Export failed",
              !.ve.isExporting = FALSE,
              !.run.pc = "failed"]

\* mutant of BeginFrame: the stage label is set on every frame
BeginFrame_everyFrame(c) ==
    LET i == c.run.frameIndex
        n == c.run.totalFrames
    IN  [c EXCEPT !.ve.progress = FrameProgress(i, n),
                  !.ve.stage = FrameStage(i, n),
                  !.run.progressLog = Append(@, FrameProgress(i, n)),
                  !.run.stageLog = Append(@, FrameStage(i, n)),
                  !.run.renderLog = Append(@, CurrentTime(i)),
                  !.run.canvasLog = Append(@, renderFrame(timelineItems, CurrentTime(i))),
                  !.run.pc = "render"]

\* head of one iteration of the frame loop, up to the await of renderFrame
BeginFrame(c) ==
    LET i == c.run.frameIndex
        n == c.run.totalFrames
    IN  [c EXCEPT !.ve.progress = FrameProgress(i, n),
                  !.ve.stage = IF i % StageInterval = 0 THEN FrameStage(i, n) ELSE @,
                  !.run.progressLog = Append(@, FrameProgress(i, n)),
                  !.run.stageLog = IF i % StageInterval = 0 THEN Append(@, FrameStage(i, n))
                                   ELSE @,
                  !.run.renderLog = Append(@, CurrentTime(i)),
                  !.run.canvasLog = Append(@, renderFrame(timelineItems, CurrentTime(i))),
                  !.run.pc = "render"]

\* setStage('Muxing final video') ... await muxWithFFmpeg / fallbackFFmpegExport
MuxStart(c) ==
    LET c1 == [c EXCEPT !.ve.stage = Stage("Muxing final video"),
                        !.ve.progress = 85,
                        !.run.pc = "mux"]
    IN  IF platform.webCodecs /\ c.run.chunks > 0
        THEN c1
        ELSE [c1 EXCEPT !.ve.stage = Stage("Using FFmpeg fallback encoding")]

\* if (audioEncoder) { ...; await audioEncoder.flush(); ... }
AudioFlushStart(c) ==
    IF c.run.audioEncoder # "null"
    THEN [c EXCEPT !.run.pc = "flushA"]
    ELSE MuxStart(c)

\* mutant of AfterLoop: the video encoder is not flushed
AfterLoop_noflush(c) ==
    AudioFlushStart([c EXCEPT !.ve.stage = Stage("Finalizing video encoding"),
                              !.ve.progress = 80])

\* setStage('Finalizing video encoding') ... if (videoEncoder) await videoEncoder.flush()
AfterLoop(c) ==
    LET c1 == [c EXCEPT !.ve.stage = Stage("Finalizing video encoding"),
                        !.ve.progress = 80]
    IN  IF c1.run.videoEncoder # "null"
        THEN [c1 EXCEPT !.run.pc = "flushV"]
        ELSE AudioFlushStart(c1)

\* for (let frameIndex = 0; frameIndex < totalFrames; frameIndex++)
Loop(c) ==
    IF c.run.frameIndex < c.run.totalFrames THEN BeginFrame(c) ELSE AfterLoop(c)

\* setStage('Processing audio tracks') ... await audioMixer.mixAudioTracks(timelineItems)
MixStart(c) ==
    [c EXCEPT !.ve.stage = Stage("Processing audio tracks"),
              !.ve.progress = 15,
              !.run.pc = "mix"]

\* from "Get export settings" to the await of mixAudioTracks; cfg is what
\* configure() does: "ok", "videoThrows" or "audioThrows"
Setup(c, cfg) ==
    LET c1 == [c EXCEPT !.run.totalFrames = TotalFrames(timelineItems),
                        !.ve.stage = Stage("Setting up video compositor"),
                        !.ve.progress = 5]
        c2 == [c1 EXCEPT !.ve.stage = Stage("Initializing WebCodecs encoders"),
                         !.ve.progress = 10,
                         !.run.videoConfig = VideoConfig(c.ve.options),
                         !.run.videoEncoder = "unconfigured"]
        c3 == [c2 EXCEPT !.run.videoEncoder = "configured"]
        c4 == [c3 EXCEPT !.run.audioEncoder = "unconfigured"]
        c5 == [c4 EXCEPT !.run.audioEncoder = "configured"]
    IN  IF ~platform.webCodecs THEN MixStart(c1)
        ELSE IF cfg = "videoThrows" THEN Catch(c2)
        ELSE IF ~platform.audioEncoder THEN MixStart(c3)
        ELSE IF cfg = "audioThrows" THEN Catch(c4)
        ELSE MixStart(c5)

\* videoEncoder.encode(frame, { keyFrame }); frame.close(); and on to the next frame
EncodeFrame(c) ==
    LET i == c.run.frameIndex
        c1 == [c EXCEPT !.run.framesCreated = @ + 1,
                        !.run.encodeLog =
                            Append(@, [timestamp |-> FrameTimestamp(CurrentTime(i)),
                                       keyFrame |-> KeyFrame(i)])]
        c2 == [c1 EXCEPT !.run.framesClosed = @ + 1,
                         !.run.frameIndex = @ + 1]
    IN  IF c.run.videoEncoder # "configured"
        THEN Catch(c1)          \* encode() throws InvalidStateError
        ELSE Loop(c2)

\* from "Preparing download" to the end of the try block
Publish(c, r, readOk) ==
    LET c1 == [c EXCEPT !.ve.stage = Stage("Preparing download"),
                        !.ve.progress = 95,
                        !.run.outputRead = TRUE]
    IN  IF ~readOk THEN Catch(c1)
        ELSE [c1 EXCEPT !.ve.downloadUrl = r,
                        !.ve.stage = Stage("Export complete!"),
                        !.ve.progress = 100,
                        !.ve.isComplete = TRUE,
                        !.toast = "Export complete!",
                        !.run.pc = "done"]

Ctx(r) == [ve |-> ve, run |-> exports[r], toast |-> veToast]

Commit(r, c) ==
    /\ ve' = c.ve
    /\ exports' = [exports EXCEPT ![r] = c.run]
    /\ veToast' = c.toast

----------------------------------------------------------------------------
(* ExportService: actions *)

\* the parent sets isOpen
VE_Open ==
    /\ mounted = "editor"
    /\ ~ve.isOpen
    /\ ve' = [ve EXCEPT !.isOpen = TRUE]
    /\ UNCHANGED <<mounted, platform, timelineItems, ffmpegLoaded, loadCalls, timers,
                   revoked, veToast, exports, confirmPrompt, aeVars, sbVars>>

\* the Export button (rendered while !isExporting && !isComplete) calls startExport
VE_StartExport ==
    /\ mounted = "editor"
    /\ ve.isOpen /\ ~ve.isExporting /\ ~ve.isComplete
    /\ IF Len(timelineItems) = 0
       THEN /\ veToast' = "Nothing to export"
            /\ UNCHANGED <<ve, exports, ffmpegLoaded, loadCalls>>
       ELSE \E r \in RunIds, cfg \in {"ok", "videoThrows", "audioThrows"} :
            /\ exports[r].pc = "none"
            /\ \A q \in RunIds : q < r => exports[q].pc # "none"
            /\ LET c0 == [ve |-> [ve EXCEPT !.isExporting = TRUE,
                                            !.progress = 0,
                                            !.stage = Stage("Initializing export system")],
                          run |-> [NoExport EXCEPT !.oldTimers = timers],
                          toast |-> veToast]
               IN  IF ~ffmpegLoaded
                   THEN /\ Commit(r, [c0 EXCEPT !.run.pc = "load"])
                        /\ loadCalls' = loadCalls + 1
                   ELSE /\ Commit(r, Setup(c0, cfg))
                        /\ loadCalls' = loadCalls
            /\ UNCHANGED ffmpegLoaded
    /\ UNCHANGED <<mounted, platform, timelineItems, timers, revoked, confirmPrompt, aeVars, sbVars>>

\* await ffmpegInstance.load() settles
VE_LoadResume(r) ==
    /\ exports[r].pc = "load"
    /\ \E ok \in BOOLEAN, cfg \in {"ok", "videoThrows", "audioThrows"} :
          IF ok
          THEN /\ ffmpegLoaded' = TRUE
               /\ Commit(r, Setup(Ctx(r), cfg))
          ELSE /\ ffmpegLoaded' = ffmpegLoaded
               /\ Commit(r, Catch(Ctx(r)))
    /\ UNCHANGED <<mounted, platform, timelineItems, loadCalls, timers, revoked,
                   confirmPrompt, aeVars, sbVars>>

\* await audioMixer.mixAudioTracks(timelineItems) settles
VE_MixResume(r) ==
    /\ exports[r].pc = "mix"
    /\ \E ok \in BOOLEAN :
          IF ok
          THEN Commit(r, Loop([Ctx(r) EXCEPT
                                  !.run.mixedAudio = [rendered |-> TRUE,
                                                      sources |-> mixAudioTracks(timelineItems)],
                                  !.ve.stage = Stage("Rendering video frames"),
                                  !.ve.progress = 20]))
          ELSE Commit(r, Catch(Ctx(r)))
    /\ UNCHANGED <<mounted, platform, timelineItems, ffmpegLoaded, loadCalls, timers,
                   revoked, confirmPrompt, aeVars, sbVars>>

\* await compositor.renderFrame(timelineItems, currentTime) settles
VE_RenderResume(r) ==
    /\ exports[r].pc = "render"
    /\ \E ok \in BOOLEAN :
          IF ~ok THEN Commit(r, Catch(Ctx(r)))
          ELSE IF platform.webCodecs THEN Commit(r, EncodeFrame(Ctx(r)))
          ELSE Commit(r, Loop([Ctx(r) EXCEPT !.run.frameIndex = @ + 1]))
    /\ UNCHANGED <<mounted, platform, timelineItems, ffmpegLoaded, loadCalls, timers,
                   revoked, confirmPrompt, aeVars, sbVars>>

\* await videoEncoder.flush() settles: rejected unless the encoder is still configured
VE_FlushVideoResume(r) ==
    /\ exports[r].pc = "flushV"
    /\ IF exports[r].videoEncoder = "configured"
       THEN Commit(r, AudioFlushStart([Ctx(r) EXCEPT
                         !.run.videoEncoder = "closed",
                         !.run.flushed = @ \cup {"videoEncoder"},
                         !.run.chunks = Len(exports[r].encodeLog)]))
       ELSE Commit(r, Catch(Ctx(r)))
    /\ UNCHANGED <<mounted, platform, timelineItems, ffmpegLoaded, loadCalls, timers,
                   revoked, confirmPrompt, aeVars, sbVars>>

\* await audioEncoder.flush() settles
VE_FlushAudioResume(r) ==
    /\ exports[r].pc = "flushA"
    /\ IF exports[r].audioEncoder = "configured"
       THEN Commit(r, MuxStart([Ctx(r) EXCEPT !.run.audioEncoder = "closed",
                                              !.run.flushed = @ \cup {"audioEncoder"}]))
       ELSE Commit(r, Catch(Ctx(r)))
    /\ UNCHANGED <<mounted, platform, timelineItems, ffmpegLoaded, loadCalls, timers,
                   revoked, confirmPrompt, aeVars, sbVars>>

\* await muxWithFFmpeg(...) / fallbackFFmpegExport() settles, then the output is read
VE_MuxResume(r) ==
    /\ exports[r].pc = "mux"
    /\ \E outcome \in {"ok", "muxFails", "readFails"} :
          IF outcome = "muxFails"
          THEN Commit(r, Catch(Ctx(r)))
          ELSE Commit(r, Publish(Ctx(r), r, outcome = "ok"))
    /\ UNCHANGED <<mounted, platform, timelineItems, ffmpegLoaded, loadCalls, timers,
                   revoked, confirmPrompt, aeVars, sbVars>>

\* the codec fails: WebCodecs closes the encoder and invokes the error callback,
\* which only logs (console.error)
VE_EncoderError(r) ==
    /\ InProgress(exports[r])
    /\ \E enc \in {"videoEncoder", "audioEncoder"} :
          /\ exports[r][enc] = "configured"
          /\ exports' = [exports EXCEPT ![r][enc] = "closed"]
    /\ UNCHANGED <<mounted, platform, timelineItems, ve, ffmpegLoaded, loadCalls, timers,
                   revoked, veToast, confirmPrompt, aeVars, sbVars>>

\* onValueChange of the Format, Quality and Resolution selects of the form (rendered
\* while !isExporting && !isComplete): setOptions({...options, [field]: value})
VE_SetOptions ==
    /\ mounted = "editor"
    /\ ve.isOpen /\ ~ve.isExporting /\ ~ve.isComplete
    /\ \E field \in {"format", "quality", "size"} :
       \E value \in CASE field = "format" -> ExportFormats
                      [] field = "quality" -> ExportQualities
                      [] OTHER -> ExportSizes :
          /\ value # ve.options[field]
          /\ ve' = [ve EXCEPT !.options = [@ EXCEPT ![field] = value]]
    /\ UNCHANGED <<mounted, platform, timelineItems, ffmpegLoaded, loadCalls, timers,
                   revoked, veToast, exports, confirmPrompt, aeVars, sbVars>>

\* handleClose: Dialog onOpenChange (Escape, overlay, close icon) and the footer buttons
VE_HandleClose ==
    /\ mounted = "editor"
    /\ ve.isOpen
    /\ timers < MaxTimers
    /\ revoked' = IF ve.downloadUrl # 0 THEN revoked \cup {ve.downloadUrl} ELSE revoked
    /\ timers' = timers + 1
    /\ ve' = [ve EXCEPT !.isOpen = FALSE]
    /\ exports' = [r \in RunIds |->
                     IF exports[r].pc = "render"
                     THEN [exports[r] EXCEPT !.closedInLoop = TRUE]
                     ELSE exports[r]]
    /\ UNCHANGED <<mounted, platform, timelineItems, ffmpegLoaded, loadCalls, veToast,
                   confirmPrompt, aeVars, sbVars>>

\* the setTimeout callback of handleClose; the timers run in the order they were set,
\* oldTimers counts those an invocation found pending when it started
VE_ResetTimer ==
    /\ timers > 0
    /\ timers' = timers - 1
    /\ exports' = [r \in RunIds |->
                     IF exports[r].oldTimers > 0
                     THEN [exports[r] EXCEPT !.oldTimers = @ - 1]
                     ELSE exports[r]]
    /\ ve' = [ve EXCEPT !.isComplete = FALSE,
                        !.isExporting = FALSE,
                        !.progress = 0,
                        !.stage = Stage(""),
                        !.downloadUrl = 0]
    /\ UNCHANGED <<mounted, platform, timelineItems, ffmpegLoaded, loadCalls, revoked,
                   veToast, confirmPrompt, aeVars, sbVars>>

----------------------------------------------------------------------------
(* AssetExporter: data *)

AssetTypes == {"preview", "video", "voiceover", "background"}

SceneIds == 0..(scenes - 1)

Slot(status, url) == [status |-> status, url |-> url]

\* processingSceneDownload === null
NoScene == -1

\* initExportProgress
initExportProgress ==
    [i \in SceneIds |->
        [a \in AssetTypes |->
            CASE a = "preview" ->
                    Slot(IF i \in previewUrls THEN "completed" ELSE "pending", i \in previewUrls)
              [] a = "video" ->
                    Slot(IF i \in videoUrls THEN "completed" ELSE "pending", i \in videoUrls)
              [] OTHER -> Slot("pending", FALSE)]]

\* prev => ({ ...prev, [i]: { ...prev[i], [a]: slot } })
SetAsset(prev, i, a, slot) ==
    LET old == IF i \in DOMAIN prev THEN prev[i] ELSE <<>>
    IN  [k \in DOMAIN prev \cup {i} |->
            IF k = i
            THEN [b \in DOMAIN old \cup {a} |-> IF b = a THEN slot ELSE old[b]]
            ELSE prev[k]]

\* the "Calculate overall export progress" effect
CompletedItems(progress) ==
    Cardinality({<<k, a>> \in (DOMAIN progress) \X AssetTypes :
                    a \in DOMAIN progress[k] /\ progress[k][a].status = "completed"})

\* mutant of CalculatedProgress: assets in error are counted as done
CalculatedProgress_settled(progress) ==
    (Cardinality({<<k, a>> \in (DOMAIN progress) \X AssetTypes :
                     a \in DOMAIN progress[k]
                     /\ progress[k][a].status \in {"completed", "error"}}) * 100)
        \div (Cardinality(DOMAIN progress) * 4)

\* Math.floor((completedItems / totalItems) * 100); the double-precision result is
\* the exact quotient for every totalItems below 100 (25 scenes)
CalculatedProgress(progress) ==
    (CompletedItems(progress) * 100) \div (Cardinality(DOMAIN progress) * 4)

OverallEffect(a) ==
    IF ~a.isExporting \/ DOMAIN a.exportProgress = {}
    THEN a
    ELSE [a EXCEPT !.overallProgress = CalculatedProgress(a.exportProgress)]

\* isSceneDownloadable(assets), evaluated by the render of the progress list
isSceneDownloadable(assets) ==
    LET statuses == {assets[a].status : a \in DOMAIN assets}
        hasCompleted == "completed" \in statuses
        allPendingOrCompleted == \A status \in statuses : status \in {"completed", "pending"}
    IN  hasCompleted /\ ~ae.isExporting /\ ~allPendingOrCompleted

\* the files createSceneZip puts into the scene folder, from the asset records it reads
SceneZipContent(assets) ==
    (IF assets["video"].status = "completed" /\ assets["video"].url
     THEN {"visual.mp4"}
     ELSE IF assets["preview"].status = "completed" /\ assets["preview"].url
          THEN {"visual.jpg"}
          ELSE {})
    \cup (IF assets["voiceover"].status = "completed" /\ assets["voiceover"].url
          THEN {"voiceover.mp3"} ELSE {})
    \cup (IF assets["background"].status = "completed" /\ assets["background"].url
          THEN {"bgmusic.mp3"} ELSE {})
    \cup {"scene-info.json"}

\* createSceneZip throws: no record for the scene, or a property read of a missing
\* asset (assets.video.status with assets.video undefined), in evaluation order
SceneZipThrows(captured, i) ==
    \/ i \notin DOMAIN captured
    \/ "video" \notin DOMAIN captured[i]
    \/ /\ ~(captured[i]["video"].status = "completed" /\ captured[i]["video"].url)
       /\ "preview" \notin DOMAIN captured[i]
    \/ "voiceover" \notin DOMAIN captured[i]
    \/ "background" \notin DOMAIN captured[i]

\* the manifest written into the project folder
Manifest ==
    [i \in SceneIds |-> [hasPreview |-> i \in previewUrls, hasVideo |-> i \in videoUrls]]

\* cancelled records that handleClose reset the dialog while the invocation was running,
\* zipFailed the scenes whose createSceneZip met a rejected fetch or generateAsync
NoAssetRun ==
    [pc |-> "none", i |-> 0, folders |-> <<>>, captured |-> <<>>, cancelled |-> FALSE,
     zipFailed |-> {}]

AeInProgress(run) == run.pc \notin {"none", "done", "failed"}

AeStage(label, n) == [label |-> label, n |-> n]

----------------------------------------------------------------------------
(* AssetExporter.startExport, segment by segment *)

\* setExportProgress(prev => ...) of one asset of scene c.run.i; the progress effect reruns
Mark(c, a, slot) ==
    [c EXCEPT !.ae.exportProgress = SetAsset(@, c.run.i, a, slot),
              !.effect = TRUE]

\* sceneFolder.file(name, blob)
AddFile(c, name) ==
    [c EXCEPT !.run.folders = [@ EXCEPT ![c.run.i] = @ \cup {name}]]

\* mutant of VoiceStart: generateSound is started together with generateSpeech
VoiceStart_eager(c) ==
    LET c1 == [c EXCEPT !.ae.currentStage = AeStage("Generating voiceover for scene", c.run.i + 1),
                        !.calls.speech = @ + 1,
                        !.calls.sound = @ + 1,
                        !.run.pc = "voice"]
    IN  Mark(c1, "voiceover", Slot("processing", FALSE))

\* "Generate voiceover with Groq", up to the await of generateSpeech
VoiceStart(c) ==
    LET c1 == [c EXCEPT !.ae.currentStage = AeStage("Generating voiceover for scene", c.run.i + 1),
                        !.calls.speech = @ + 1,
                        !.run.pc = "voice"]
    IN  Mark(c1, "voiceover", Slot("processing", FALSE))

\* "Generate background music with ElevenLabs", up to the await of generateSound
MusicStart(c) ==
    LET c1 == [c EXCEPT !.ae.currentStage =
                            AeStage("Generating background music for scene", c.run.i + 1),
                        !.calls.sound = @ + 1,
                        !.run.pc = "music"]
    IN  Mark(c1, "background", Slot("processing", FALSE))

\* mutant of VisualAsset: the preview image is preferred to the video
VisualAsset_previewFirst(i) ==
    IF i \in previewUrls THEN "preview"
    ELSE IF i \in videoUrls THEN "video"
    ELSE "none"

\* the asset the visual step of scene i works on: video before preview
VisualAsset(i) ==
    IF i \in videoUrls THEN "video"
    ELSE IF i \in previewUrls THEN "preview"
    ELSE "none"

\* head of the scene loop: the next scene's visual step, or the manifest and the package
SceneHead(c) ==
    LET i == c.run.i
        c1 == [c EXCEPT !.run.folders = [k \in DOMAIN @ \cup {i} |->
                                            IF k = i THEN {} ELSE @[k]],
                        !.ae.currentStage = AeStage("Processing scene visuals", i + 1)]
    IN  IF i < scenes
        THEN IF VisualAsset(i) # "none"
             THEN [c1 EXCEPT !.calls.fetch = @ + 1, !.run.pc = "visual"]
             ELSE VoiceStart(c1)
        ELSE [c EXCEPT !.ae.currentStage = AeStage("Creating downloadable package", 0),
                       !.run.pc = "package"]

\* mutant of Resolve: the error update forgets to spread ...prev[i]
Resolve_nospread(c, a, ok, file) ==
    IF ok
    THEN Mark(AddFile(c, file), a, Slot("completed", TRUE))
    ELSE [c EXCEPT !.ae.exportProgress =
                      [k \in DOMAIN @ \cup {c.run.i} |->
                          IF k = c.run.i
                          THEN [b \in {a} |-> Slot("error", FALSE)]
                          ELSE @[k]],
                   !.effect = TRUE]

\* the catch and then blocks of the three per-scene steps
Resolve(c, a, ok, file) ==
    IF ok
    THEN Mark(AddFile(c, file), a, Slot("completed", TRUE))
    ELSE Mark(c, a, Slot("error", FALSE))

\* createSceneZip(i) settles: cached on success, logged on failure; next scene
SceneZipDone(c, ok) ==
    LET i == c.run.i
        throws == SceneZipThrows(c.run.captured, i)
        c1 == IF throws THEN c
              ELSE IF ok
              THEN [c EXCEPT !.ae.sceneZipFiles =
                        [k \in DOMAIN @ \cup {i} |->
                            IF k = i THEN SceneZipContent(c.run.captured[i]) ELSE @[k]]]
              ELSE [c EXCEPT !.run.zipFailed = @ \cup {i}]
    IN  SceneHead([c1 EXCEPT !.run.i = i + 1])

\* zip.generateAsync settles; finally { setIsExporting(false) }
PackageDone(c, ok) ==
    LET c1 == IF ok
              THEN [c EXCEPT !.ae.zipFile = {[folders |-> c.run.folders, manifest |-> Manifest]},
                             !.ae.currentStage = AeStage("Export complete!", 0),
                             !.toast = "Export completed successfully",
                             !.run.pc = "done"]
              ELSE [c EXCEPT !.toast = "Export failed",
                             !.run.pc = "failed"]
    IN  [c1 EXCEPT !.ae.isExporting = FALSE]

AeCtx(r) == [ae |-> ae, run |-> aeRuns[r], toast |-> aeToast, calls |-> aeCalls,
             effect |-> FALSE]

AeCommit(r, c) ==
    /\ ae' = IF c.effect \/ c.ae.isExporting # ae.isExporting THEN OverallEffect(c.ae) ELSE c.ae
    /\ aeRuns' = [aeRuns EXCEPT ![r] = c.run]
    /\ aeToast' = c.toast
    /\ aeCalls' = c.calls

\* mutant of InputError: the key checks are missing
InputError_nokeys(n, groqApiKey, elevenlabsApiKey) ==
    IF n = 0 THEN "No scenes to export" ELSE ""

\* the three input checks at the top of startExport; "" when the input is accepted
InputError(n, groqApiKey, elevenlabsApiKey) ==
    IF n = 0 THEN "No scenes to export"
    ELSE IF groqApiKey = "" THEN "Groq API key is required for voiceover generation"
    ELSE IF elevenlabsApiKey = ""
         THEN "ElevenLabs API key is required for background music generation"
    ELSE ""

----------------------------------------------------------------------------
(* AssetExporter: actions *)

\* the parent sets isOpen
AE_Open ==
    /\ mounted = "storyboard"
    /\ confirmPrompt = "none"
    /\ ~ae.isOpen
    /\ ae' = [ae EXCEPT !.isOpen = TRUE]
    /\ UNCHANGED <<mounted, veVars, sbVars, confirmPrompt, scenes, previewUrls, videoUrls,
                   aeToast, aeCalls, aeRuns, aeDownloads>>

\* startExport, called from the form (rendered while !isExporting && !zipFile);
\* the function repeats the key checks that disable its button
AE_StartExport ==
    /\ mounted = "storyboard"
    /\ confirmPrompt = "none"
    /\ ae.isOpen /\ ~ae.isExporting /\ ae.zipFile = {}
    /\ IF InputError(scenes, ae.groqApiKey, ae.elevenlabsApiKey) # ""
       THEN /\ aeToast' = InputError(scenes, ae.groqApiKey, ae.elevenlabsApiKey)
            /\ UNCHANGED <<ae, aeCalls, aeRuns>>
       ELSE \E r \in DOMAIN aeRuns :
            /\ aeRuns[r].pc = "none"
            /\ \A q \in DOMAIN aeRuns : q < r => aeRuns[q].pc # "none"
            /\ LET c0 == [AeCtx(r) EXCEPT
                            !.ae.isExporting = TRUE,
                            !.ae.exportProgress = initExportProgress,
                            !.ae.sceneZipFiles = <<>>,
                            !.run.captured = ae.exportProgress,
                            !.effect = TRUE]
               IN  AeCommit(r, SceneHead(c0))
    /\ UNCHANGED <<mounted, veVars, sbVars, confirmPrompt, scenes, previewUrls, videoUrls, aeDownloads>>

\* the fetch of the scene's video or preview settles
AE_VisualResume(r) ==
    /\ confirmPrompt = "none"
    /\ aeRuns[r].pc = "visual"
    /\ \E ok \in BOOLEAN :
          LET a == VisualAsset(aeRuns[r].i)
              file == IF a = "video" THEN "visual.mp4" ELSE "visual.jpg"
          IN  AeCommit(r, VoiceStart(Resolve(AeCtx(r), a, ok, file)))
    /\ UNCHANGED <<mounted, veVars, sbVars, confirmPrompt, scenes, previewUrls, videoUrls, aeDownloads>>

\* generateSpeech and the fetch of its result settle
AE_VoiceResume(r) ==
    /\ confirmPrompt = "none"
    /\ aeRuns[r].pc = "voice"
    /\ \E ok \in BOOLEAN :
          AeCommit(r, MusicStart(Resolve(AeCtx(r), "voiceover", ok, "voiceover.mp3")))
    /\ UNCHANGED <<mounted, veVars, sbVars, confirmPrompt, scenes, previewUrls, videoUrls, aeDownloads>>

\* generateSound and the fetch of its result settle; createSceneZip(i) is started
AE_MusicResume(r) ==
    /\ confirmPrompt = "none"
    /\ aeRuns[r].pc = "music"
    /\ \E ok \in BOOLEAN :
          AeCommit(r, [Resolve(AeCtx(r), "background", ok, "bgmusic.mp3")
                          EXCEPT !.run.pc = "scenezip"])
    /\ UNCHANGED <<mounted, veVars, sbVars, confirmPrompt, scenes, previewUrls, videoUrls, aeDownloads>>

\* await createSceneZip(i) settles
AE_SceneZipResume(r) ==
    /\ confirmPrompt = "none"
    /\ aeRuns[r].pc = "scenezip"
    /\ \E ok \in BOOLEAN : AeCommit(r, SceneZipDone(AeCtx(r), ok))
    /\ UNCHANGED <<mounted, veVars, sbVars, confirmPrompt, scenes, previewUrls, videoUrls, aeDownloads>>

\* await zip.generateAsync settles
AE_PackageResume(r) ==
    /\ confirmPrompt = "none"
    /\ aeRuns[r].pc = "package"
    /\ \E ok \in BOOLEAN : AeCommit(r, PackageDone(AeCtx(r), ok))
    /\ UNCHANGED <<mounted, veVars, sbVars, confirmPrompt, scenes, previewUrls, videoUrls, aeDownloads>>

\* handleClose after its confirmation: the five resets and onClose()
CloseReset(a) ==
    [a EXCEPT !.isExporting = FALSE,
              !.exportProgress = <<>>,
              !.overallProgress = 0,
              !.currentStage = AeStage("", 0),
              !.zipFile = {},
              !.isOpen = FALSE]

\* handleClose: Dialog onOpenChange and the footer buttons.  While isExporting it
\* stops in window.confirm, which blocks the page until the user answers
AE_HandleClose ==
    /\ mounted = "storyboard"
    /\ confirmPrompt = "none"
    /\ ae.isOpen
    /\ IF ae.isExporting
       THEN confirmPrompt' = "shown" /\ ae' = ae
       ELSE confirmPrompt' = "none" /\ ae' = CloseReset(ae)
    /\ UNCHANGED <<mounted, veVars, sbVars, scenes, previewUrls, videoUrls, aeToast, aeCalls,
                   aeRuns, aeDownloads>>

\* the user answers OK: handleClose goes on
AE_ConfirmAccept ==
    /\ confirmPrompt = "shown"
    /\ confirmPrompt' = "none"
    /\ ae' = CloseReset(ae)
    /\ aeRuns' = [r \in DOMAIN aeRuns |->
                     IF AeInProgress(aeRuns[r])
                     THEN [aeRuns[r] EXCEPT !.cancelled = TRUE]
                     ELSE aeRuns[r]]
    /\ UNCHANGED <<mounted, veVars, sbVars, scenes, previewUrls, videoUrls, aeToast, aeCalls,
                   aeDownloads>>

\* the user answers Cancel: if (!confirmed) return
AE_ConfirmDecline ==
    /\ confirmPrompt = "shown"
    /\ confirmPrompt' = "none"
    /\ UNCHANGED <<mounted, veVars, sbVars, scenes, previewUrls, videoUrls, ae, aeToast, aeCalls,
                   aeRuns, aeDownloads>>

----------------------------------------------------------------------------
(* AssetExporter.handleDownloadScene *)

\* mutant of DownloadStart: the cache is not consulted
DownloadStart_nocache(a, sceneIndex) ==
    IF SceneZipThrows(a.exportProgress, sceneIndex)
    THEN [scene |-> sceneIndex, pc |-> "failed", captured |-> <<>>, saved |-> {}]
    ELSE [scene |-> sceneIndex, pc |-> "build", captured |-> a.exportProgress, saved |-> {}]

\* handleDownloadScene(sceneIndex) up to its first suspension or its end: the cached
\* archive is handed to saveAs, or createSceneZip(sceneIndex) is started on the
\* exportProgress of the current render (and rejects at once when it throws)
DownloadStart(a, sceneIndex) ==
    IF sceneIndex \in DOMAIN a.sceneZipFiles
    THEN [scene |-> sceneIndex, pc |-> "done", captured |-> <<>>,
          saved |-> a.sceneZipFiles[sceneIndex]]
    ELSE IF SceneZipThrows(a.exportProgress, sceneIndex)
         THEN [scene |-> sceneIndex, pc |-> "failed", captured |-> <<>>, saved |-> {}]
         ELSE [scene |-> sceneIndex, pc |-> "build", captured |-> a.exportProgress,
               saved |-> {}]

\* the toast and the finally block of handleDownloadScene
DownloadEnd(pc) ==
    /\ aeToast' = CASE pc = "done" -> "Scene downloaded successfully"
                     [] pc = "failed" -> "Failed to download scene"
                     [] OTHER -> aeToast

\* handleDownloadScene(sceneIndex) is called for a scene of the open dialog whose
\* Download button is not disabled
AE_DownloadScene(sceneIndex) ==
    /\ mounted = "storyboard"
    /\ confirmPrompt = "none"
    /\ ae.isOpen
    /\ ae.processingSceneDownload # sceneIndex
    /\ Len(aeDownloads) < MaxDownloads
    /\ LET download == DownloadStart(ae, sceneIndex)
       IN  /\ aeDownloads' = Append(aeDownloads, download)
           /\ ae' = [ae EXCEPT !.processingSceneDownload =
                                   IF download.pc = "build" THEN sceneIndex ELSE NoScene]
           /\ DownloadEnd(download.pc)
    /\ UNCHANGED <<mounted, veVars, sbVars, confirmPrompt, scenes, previewUrls, videoUrls, aeCalls,
                   aeRuns>>

\* await createSceneZip(sceneIndex) settles in handleDownloadScene
AE_DownloadResume(d) ==
    /\ confirmPrompt = "none"
    /\ aeDownloads[d].pc = "build"
    /\ \E ok \in BOOLEAN :
          LET i == aeDownloads[d].scene
              sceneZip == SceneZipContent(aeDownloads[d].captured[i])
          IN  IF ok
              THEN /\ ae' = [ae EXCEPT !.sceneZipFiles =
                                          [k \in DOMAIN @ \cup {i} |->
                                              IF k = i THEN sceneZip ELSE @[k]],
                                       !.processingSceneDownload = NoScene]
                   /\ aeDownloads' = [aeDownloads EXCEPT ![d].pc = "done",
                                                         ![d].saved = sceneZip]
                   /\ DownloadEnd("done")
              ELSE /\ ae' = [ae EXCEPT !.processingSceneDownload = NoScene]
                   /\ aeDownloads' = [aeDownloads EXCEPT ![d].pc = "failed"]
                   /\ DownloadEnd("failed")
    /\ UNCHANGED <<mounted, veVars, sbVars, confirmPrompt, scenes, previewUrls, videoUrls, aeCalls,
                   aeRuns>>

----------------------------------------------------------------------------
(* generateWanVideo and generatePikaVideo (src/unnamed/part_001) *)

VideoModels == {"wan", "pika"}

\* what fal.subscribe resolves with: null, or an object in which each of the three
\* places a URL may stand in holds one ("" when it does not)
Responses ==
    [null : {TRUE}, video : {""}, artifacts : {""}, data : {""}]
    \cup [null : {FALSE}, video : {"", "video.url"}, artifacts : {"", "artifacts[0].url"},
          data : {"", "data.video.url"}]

\* what fal.subscribe rejects with
ProviderErrors == {"Unauthorized: invalid API key", "Too many requests: rate limit", "Network error"}

ProviderOutcomes ==
    [kind : {"result"}, response : Responses, message : {""}]
    \cup [kind : {"error"}, response : {CHOOSE r \in Responses : r.null}, message : ProviderErrors]

\* reject(new Error('Video generation timed out after N minutes. ...'))
TimeoutMessage(model) ==
    IF model = "wan" THEN "Video generation timed out after 10 minutes"
    ELSE "Video generation timed out after 15 minutes"

\* setTimeout(..., 600000) / setTimeout(..., 900000)
VideoTimeout(model) == IF model = "wan" THEN WanTimeout ELSE PikaTimeout

\* error.message.includes(phrase), on the messages that reach the inner catch block
Includes(message, phrase) ==
    \/ phrase = "API key" /\ message = "Unauthorized: invalid API key"
    \/ phrase = "rate limit" /\ message = "Too many requests: rate limit"

\* the places the URL is looked for, Wan: video, artifacts, data; Pika: video, data,
\* artifacts
VideoUrl(model, response) ==
    IF response.video # "" THEN response.video
    ELSE IF model = "wan"
         THEN IF response.artifacts # "" THEN response.artifacts ELSE response.data
         ELSE IF response.data # "" THEN response.data ELSE response.artifacts

\* the inner catch block: two messages are rewritten, every error is thrown again; the
\* outer catch block logs and throws again
Rethrow(call, message) ==
    [call EXCEPT !.pc = "rejected",
                 !.error = IF Includes(message, "API key") THEN "Invalid API key"
                           ELSE IF Includes(message, "rate limit") THEN "Rate limit exceeded"
                           ELSE message]

\* mutant of Settle: a rejected provider request is sent again
Settle_retry(call, outcome) ==
    IF outcome.kind = "error"
    THEN [call EXCEPT !.requests = @ + 1]
    ELSE IF outcome.response.null
         THEN Rethrow([call EXCEPT !.provider = "settled"], "No response from API")
         ELSE IF VideoUrl(call.model, outcome.response) = ""
              THEN Rethrow([call EXCEPT !.provider = "settled"], "No video URL in the response")
              ELSE [call EXCEPT !.provider = "settled", !.pc = "resolved",
                                !.result = VideoUrl(call.model, outcome.response)]

\* Promise.race is settled by fal.subscribe: the rest of the inner try block
Settle(call, outcome) ==
    LET c1 == [call EXCEPT !.provider = "settled"]
    IN  IF outcome.kind = "error"
        THEN Rethrow(c1, outcome.message)
        ELSE IF outcome.response.null
             THEN Rethrow(c1, "No response from API")
             ELSE IF VideoUrl(call.model, outcome.response) = ""
                  THEN Rethrow(c1, "No video URL in the response")
                  ELSE [c1 EXCEPT !.pc = "resolved",
                                  !.result = VideoUrl(call.model, outcome.response)]

\* generateWanVideo / generatePikaVideo up to the await of Promise.race, at time t
GenerateVideo(model, apiKey, t) ==
    LET call == [model |-> model, apiKey |-> apiKey, pc |-> "rejected", requests |-> 0,
                 started |-> t, deadline |-> 0, provider |-> "none", timer |-> "none",
                 result |-> "", error |-> "Fal.ai API key is required"]
    IN  IF apiKey = ""
        THEN call
        ELSE [call EXCEPT !.pc = "race", !.requests = 1, !.deadline = t + VideoTimeout(model),
                          !.provider = "pending", !.timer = "pending", !.error = ""]

generateWanVideo(apiKey, t) == GenerateVideo("wan", apiKey, t)

generatePikaVideo(apiKey, t) == GenerateVideo("pika", apiKey, t)

\* a caller invokes one of the two functions
LIB_Call ==
    /\ Len(videoCalls) < MaxCalls
    /\ \E model \in VideoModels, apiKey \in {"", "key"} :
          videoCalls' = Append(videoCalls,
                               IF model = "wan" THEN generateWanVideo(apiKey, now)
                               ELSE generatePikaVideo(apiKey, now))
    /\ UNCHANGED <<mounted, veVars, confirmPrompt, aeVars, page, pageOps, now>>

\* fal.subscribe settles; after the timeout has won the race nothing is left to do
LIB_ProviderSettles(c) ==
    /\ videoCalls[c].provider = "pending"
    /\ \E outcome \in ProviderOutcomes :
          videoCalls' = [videoCalls EXCEPT ![c] =
                            IF @.pc = "race" THEN Settle(@, outcome)
                            ELSE [@ EXCEPT !.provider = "settled"]]
    /\ UNCHANGED <<mounted, veVars, confirmPrompt, aeVars, page, pageOps, now>>

\* the setTimeout callback: timeoutPromise rejects; the timer is never cleared, so it
\* also fires after the race was settled by the provider
LIB_Timeout(c) ==
    /\ videoCalls[c].timer = "pending"
    /\ now >= videoCalls[c].deadline
    /\ videoCalls' = [videoCalls EXCEPT ![c] =
                         IF @.pc = "race"
                         THEN Rethrow([@ EXCEPT !.timer = "fired"], TimeoutMessage(@.model))
                         ELSE [@ EXCEPT !.timer = "fired"]]
    /\ UNCHANGED <<mounted, veVars, confirmPrompt, aeVars, page, pageOps, now>>

\* time passes; a timer that is due runs before the clock moves on
LIB_Tick ==
    /\ now < MaxTicks * TickMillis
    /\ \A c \in DOMAIN videoCalls :
          videoCalls[c].timer = "pending" => now < videoCalls[c].deadline
    /\ now' = now + TickMillis
    /\ UNCHANGED <<mounted, veVars, confirmPrompt, aeVars, page, pageOps, videoCalls>>

----------------------------------------------------------------------------
(* StoryboardPage: the handlers that set isLoading.  The page state previewUrls and  *)
(* videoUrls and scriptData.scenes.length are the props of AssetExporter, and         *)
(* isAssetExporterOpen is its isOpen.  A handler runs from a click, or from the       *)
(* settling of the request it awaits, to its next request; the promise hops between   *)
(* a handler and the handler that awaits it are part of the same step.                *)

PageOp(kind, i, todo) == [kind |-> kind, i |-> i, todo |-> todo, pc |-> "await"]

\* the elements of a set of scene indexes, in ascending order
Ascending(S) ==
    LET seq[k \in 0..MaxScenes] ==
            IF k = 0 THEN <<>>
            ELSE IF (k - 1) \in S THEN Append(seq[k - 1], k - 1) ELSE seq[k - 1]
    IN  seq[MaxScenes]

\* scriptData.scenes.map((_, index) => index).filter(index => previewUrls[index] && !videoUrls[index])
scenesWithoutVideos == Ascending((previewUrls \ videoUrls) \cap SceneIds)

\* a click on a control of the page: the page is mounted and no modal dialog covers it
PageClick ==
    /\ mounted = "storyboard"
    /\ confirmPrompt = "none"
    /\ ~ae.isOpen
    /\ Len(pageOps) < MaxOps

\* handleGenerateAllPreviews (button disabled while isLoading), up to the await in
\* handleGeneratePreview(0)
PAGE_GenerateAllPreviews ==
    /\ PageClick
    /\ ~page.isLoading
    /\ scenes > 0
    /\ IF page.falaiKey = ""
       THEN /\ page' = [page EXCEPT !.toast = "FAL.ai API key required"]
            /\ UNCHANGED pageOps
       ELSE /\ page' = [page EXCEPT !.isLoading = TRUE,
                                    !.toast = "Generating all preview images"]
            /\ pageOps' = Append(pageOps, PageOp("batch", 0, <<>>))
    /\ UNCHANGED <<mounted, veVars, confirmPrompt, aeVars, now, videoCalls>>

\* handleGeneratePreview(sceneIndex) from the Generate Image button of a scene card
\* (disabled while isLoading)
PAGE_GeneratePreview(sceneIndex) ==
    /\ PageClick
    /\ ~page.isLoading
    /\ IF page.falaiKey = ""
       THEN /\ page' = [page EXCEPT !.toast = "FAL.ai API key required"]
            /\ UNCHANGED pageOps
       ELSE /\ page' = [page EXCEPT !.isLoading = TRUE]
            /\ pageOps' = Append(pageOps, PageOp("preview", sceneIndex, <<>>))
    /\ UNCHANGED <<mounted, veVars, confirmPrompt, aeVars, now, videoCalls>>

\* handleGenerateVideoFromScene(sceneIndex) from the Generate Video button, shown for a
\* scene with a preview and disabled while isLoading
PAGE_GenerateVideo(sceneIndex) ==
    /\ PageClick
    /\ ~page.isLoading
    /\ sceneIndex \in previewUrls
    /\ IF page.falaiKey = ""
       THEN /\ page' = [page EXCEPT !.toast = "FAL.ai API key required"]
            /\ UNCHANGED pageOps
       ELSE /\ page' = [page EXCEPT !.isLoading = TRUE, !.toast = "Generating video for scene"]
            /\ pageOps' = Append(pageOps, PageOp("video", sceneIndex, <<>>))
    /\ UNCHANGED <<mounted, veVars, confirmPrompt, aeVars, now, videoCalls>>

\* handleReferenceImageUpload from the file input, opened by the Upload Reference Image
\* button (disabled while isLoading)
PAGE_ReferenceImageUpload ==
    /\ PageClick
    /\ ~page.isLoading
    /\ IF page.falaiKey = ""
       THEN /\ page' = [page EXCEPT !.isLoading = FALSE, !.toast = "FAL.ai API key required"]
            /\ UNCHANGED pageOps
       ELSE /\ page' = [page EXCEPT !.isLoading = TRUE]
            /\ pageOps' = Append(pageOps, PageOp("upload", 0, <<>>))
    /\ UNCHANGED <<mounted, veVars, confirmPrompt, aeVars, now, videoCalls>>

\* handleOpenAssetExporter from the Export Assets button, disabled only while there is
\* no storyboard or no preview; shouldGenerate is the answer to window.confirm
PAGE_OpenAssetExporter ==
    /\ PageClick
    /\ scenes > 0 /\ previewUrls # {}
    /\ IF page.falaiKey = ""
       THEN /\ page' = [page EXCEPT !.toast = "FAL.ai API key required for video generation"]
            /\ UNCHANGED <<pageOps, ae>>
       ELSE IF Len(scenesWithoutVideos) = 0
       THEN /\ ae' = [ae EXCEPT !.isOpen = TRUE]
            /\ UNCHANGED <<page, pageOps>>
       ELSE \E shouldGenerate \in BOOLEAN :
               IF shouldGenerate
               THEN /\ page' = [page EXCEPT !.isLoading = TRUE,
                                            !.toast = "Generating video for scene"]
                    /\ pageOps' = Append(pageOps, PageOp("exportVideos", Head(scenesWithoutVideos),
                                                         Tail(scenesWithoutVideos)))
                    /\ UNCHANGED ae
               ELSE /\ ae' = [ae EXCEPT !.isOpen = TRUE]
                    /\ UNCHANGED <<page, pageOps>>
    /\ UNCHANGED <<mounted, veVars, confirmPrompt, scenes, previewUrls, videoUrls, aeToast,
                   aeCalls, aeRuns, aeDownloads, now, videoCalls>>

\* the request a handler awaits settles: the rest of handleGeneratePreview /
\* handleGenerateVideoFromScene / handleReferenceImageUpload with its finally
\* { setIsLoading(false) }, then the rest of the loop of the handler that awaits it
PAGE_Settles(o) ==
    /\ confirmPrompt = "none"
    /\ pageOps[o].pc = "await"
    /\ \E ok \in BOOLEAN :
          LET op == pageOps[o]
              settled == [page EXCEPT !.isLoading = FALSE,
                                      !.toast = IF ok THEN "generated" ELSE "failed"]
          IN  CASE op.kind = "preview" ->
                     /\ previewUrls' = IF ok THEN previewUrls \cup {op.i} ELSE previewUrls
                     /\ page' = settled
                     /\ pageOps' = [pageOps EXCEPT ![o].pc = "done"]
                     /\ UNCHANGED <<videoUrls, ae>>
                [] op.kind = "batch" ->
                     /\ previewUrls' = IF ok THEN previewUrls \cup {op.i} ELSE previewUrls
                     /\ IF op.i + 1 < scenes
                        THEN /\ page' = [settled EXCEPT !.isLoading = TRUE]
                             /\ pageOps' = [pageOps EXCEPT ![o].i = op.i + 1]
                        ELSE /\ page' = [settled EXCEPT !.toast = "All preview images generated",
                                                        !.isLoading = FALSE]
                             /\ pageOps' = [pageOps EXCEPT ![o].pc = "done"]
                     /\ UNCHANGED <<videoUrls, ae>>
                [] op.kind = "video" ->
                     /\ videoUrls' = IF ok THEN videoUrls \cup {op.i} ELSE videoUrls
                     /\ page' = settled
                     /\ pageOps' = [pageOps EXCEPT ![o].pc = "done"]
                     /\ UNCHANGED <<previewUrls, ae>>
                [] op.kind = "upload" ->
                     /\ page' = [settled EXCEPT !.characterReferenceImage = ok \/ @]
                     /\ pageOps' = [pageOps EXCEPT ![o].pc = "done"]
                     /\ UNCHANGED <<previewUrls, videoUrls, ae>>
                [] op.kind = "exportVideos" ->
                     /\ videoUrls' = IF ok THEN videoUrls \cup {op.i} ELSE videoUrls
                     /\ IF Len(op.todo) > 0
                        THEN /\ page' = [settled EXCEPT !.isLoading = TRUE,
                                                        !.toast = "Generating video for scene"]
                             /\ pageOps' = [pageOps EXCEPT ![o].i = Head(op.todo),
                                                           ![o].todo = Tail(op.todo)]
                             /\ UNCHANGED ae
                        ELSE /\ page' = [settled EXCEPT !.toast = "All videos generated",
                                                        !.isLoading = FALSE]
                             /\ pageOps' = [pageOps EXCEPT ![o].pc = "done"]
                             /\ ae' = [ae EXCEPT !.isOpen = TRUE]
                     /\ UNCHANGED previewUrls
    /\ UNCHANGED <<mounted, veVars, confirmPrompt, scenes, aeToast, aeCalls, aeRuns,
                   aeDownloads, now, videoCalls>>

----------------------------------------------------------------------------
(* Initial states and specifications *)

InitVideo(timelines, ids) ==
    /\ platform \in {[webCodecs |-> TRUE, audioEncoder |-> TRUE],
                     [webCodecs |-> TRUE, audioEncoder |-> FALSE],
                     [webCodecs |-> FALSE, audioEncoder |-> FALSE]}
    /\ timelineItems \in timelines
    /\ ve = [isOpen |-> FALSE, options |-> DefaultOptions, progress |-> 0,
             stage |-> Stage(""), isExporting |-> FALSE, isComplete |-> FALSE,
             downloadUrl |-> 0]
    /\ ffmpegLoaded = FALSE
    /\ loadCalls = 0
    /\ timers = 0
    /\ revoked = {}
    /\ veToast = "none"
    /\ exports = [r \in ids |-> NoExport]

InitAsset(ids) ==
    /\ scenes \in 0..MaxScenes
    /\ previewUrls \in SUBSET (0..(scenes - 1))
    /\ videoUrls \in SUBSET (0..(scenes - 1))
    /\ ae \in [isOpen : {FALSE}, groqApiKey : {"", "key"}, elevenlabsApiKey : {"", "key"},
                isExporting : {FALSE}, exportProgress : {<<>>}, overallProgress : {0},
                currentStage : {AeStage("", 0)}, zipFile : {{}}, sceneZipFiles : {<<>>},
                processingSceneDownload : {NoScene}]
    /\ aeToast = "none"
    /\ aeCalls = [speech |-> 0, sound |-> 0, fetch |-> 0]
    /\ aeRuns = [r \in ids |-> NoAssetRun]
    /\ aeDownloads = <<>>

NextVideo ==
    \/ VE_Open
    \/ VE_StartExport
    \/ \E r \in RunIds : VE_LoadResume(r)
    \/ \E r \in RunIds : VE_MixResume(r)
    \/ \E r \in RunIds : VE_RenderResume(r)
    \/ \E r \in RunIds : VE_FlushVideoResume(r)
    \/ \E r \in RunIds : VE_FlushAudioResume(r)
    \/ \E r \in RunIds : VE_MuxResume(r)
    \/ \E r \in RunIds : VE_EncoderError(r)
    \/ VE_HandleClose
    \/ VE_ResetTimer

NextAsset ==
    \/ AE_Open
    \/ AE_StartExport
    \/ \E r \in DOMAIN aeRuns : AE_VisualResume(r)
    \/ \E r \in DOMAIN aeRuns : AE_VoiceResume(r)
    \/ \E r \in DOMAIN aeRuns : AE_MusicResume(r)
    \/ \E r \in DOMAIN aeRuns : AE_SceneZipResume(r)
    \/ \E r \in DOMAIN aeRuns : AE_PackageResume(r)
    \/ AE_HandleClose
    \/ AE_ConfirmAccept
    \/ AE_ConfirmDecline

Next == NextVideo \/ NextAsset

\* the dialog that is not mounted stays in its initial state
VideoIdle ==
    /\ InitVideo({<<>>}, {})
    /\ platform = [webCodecs |-> FALSE, audioEncoder |-> FALSE]

AssetIdle ==
    /\ InitAsset({})
    /\ scenes = 0
    /\ ae.groqApiKey = "" /\ ae.elevenlabsApiKey = ""

LibraryIdle == now = 0 /\ videoCalls = <<>>

PageIdle ==
    /\ page = [isLoading |-> FALSE, falaiKey |-> "", characterReferenceImage |-> FALSE,
               toast |-> "none"]
    /\ pageOps = <<>>

StoryboardIdle == PageIdle /\ LibraryIdle

\* the video export dialog: overlapping invocations on short timelines
InitOverlap ==
    /\ mounted = "editor" /\ confirmPrompt = "none"
    /\ InitVideo(ShortTimelines, 1..MaxRuns) /\ AssetIdle
    /\ StoryboardIdle
SpecVideo == InitOverlap /\ [][NextVideo]_vars

\* the video export dialog: one invocation on every timeline, the long one included
InitFrames ==
    /\ mounted = "editor" /\ confirmPrompt = "none"
    /\ InitVideo(ShortTimelines \cup LongTimelines \cup ImageTimelines \cup FaultyTimelines,
                 {1})
    /\ AssetIdle
    /\ StoryboardIdle
SpecFrames == InitFrames /\ [][NextVideo]_vars

\* the video export dialog with its form: one invocation on one clip, every preset
PresetTimelines == { <<Item("video", 0, ShortDuration)>> }

NextPresets == NextVideo \/ VE_SetOptions

InitPresets ==
    /\ mounted = "editor" /\ confirmPrompt = "none"
    /\ InitVideo(PresetTimelines, {1}) /\ AssetIdle
    /\ StoryboardIdle
SpecPresets == InitPresets /\ [][NextPresets]_vars

\* the asset export dialog: overlapping invocations on short scripts
InitAssetOverlap ==
    /\ mounted = "storyboard" /\ confirmPrompt = "none"
    /\ InitAsset(1..MaxRuns) /\ scenes <= MaxOverlapScenes /\ VideoIdle
    /\ StoryboardIdle
SpecAsset == InitAssetOverlap /\ [][NextAsset]_vars

\* the asset export dialog: one invocation on every script
InitScenes ==
    /\ mounted = "storyboard" /\ confirmPrompt = "none"
    /\ InitAsset({1}) /\ VideoIdle
    /\ StoryboardIdle
SpecScenes == InitScenes /\ [][NextAsset]_vars

\* the asset export dialog with handleDownloadScene called on it
NextDownload ==
    \/ NextAsset
    \/ \E sceneIndex \in SceneIds : AE_DownloadScene(sceneIndex)
    \/ \E d \in DOMAIN aeDownloads : AE_DownloadResume(d)

InitDownload == InitScenes /\ scenes <= MaxOverlapScenes
SpecDownload == InitDownload /\ [][NextDownload]_vars

\* the two video generation functions, called by any caller at any time
NextGenerate ==
    \/ LIB_Call
    \/ \E c \in DOMAIN videoCalls : LIB_ProviderSettles(c)
    \/ \E c \in DOMAIN videoCalls : LIB_Timeout(c)
    \/ LIB_Tick

InitGenerate ==
    /\ mounted = "storyboard" /\ confirmPrompt = "none"
    /\ VideoIdle /\ AssetIdle
    /\ PageIdle /\ LibraryIdle
SpecGenerate == InitGenerate /\ [][NextGenerate]_vars

\* the storyboard page with the handlers that set isLoading; the asset export dialog
\* is opened and closed, no export is started in it
NextPage ==
    \/ PAGE_GenerateAllPreviews
    \/ \E sceneIndex \in SceneIds : PAGE_GeneratePreview(sceneIndex)
    \/ \E sceneIndex \in SceneIds : PAGE_GenerateVideo(sceneIndex)
    \/ PAGE_ReferenceImageUpload
    \/ PAGE_OpenAssetExporter
    \/ \E o \in DOMAIN pageOps : PAGE_Settles(o)
    \/ AE_HandleClose

InitPage ==
    /\ mounted = "storyboard" /\ confirmPrompt = "none"
    /\ VideoIdle /\ LibraryIdle
    /\ InitAsset({})
    /\ previewUrls = {} /\ videoUrls = {}
    /\ ae.groqApiKey = "" /\ ae.elevenlabsApiKey = ""
    /\ page \in [isLoading : {FALSE}, falaiKey : {"", "key"},
                 characterReferenceImage : {FALSE}, toast : {"none"}]
    /\ pageOps = <<>>
SpecPage == InitPage /\ [][NextPage]_vars

\* either page, one invocation
Init == InitFrames \/ InitScenes
Spec == Init /\ [][Next]_vars

----------------------------------------------------------------------------
(* Claims about the video export dialog *)

ExportsInProgress == {r \in RunIds : InProgress(exports[r])}

EncoderOpen(state) == state \in {"unconfigured", "configured"}

\* C1: at most one invocation of the video exporter's startExport is in progress at
\* any time, also when the dialog is closed and reopened during the first one
C1_SingleExport == Cardinality(ExportsInProgress) <= 1

\* C2: an invocation whose dialog was closed during the frame loop never publishes
\* an artifact (downloadUrl, isComplete) and, once it has ended, holds no open encoder
C2_CancelledRunInert ==
    \A r \in RunIds :
        exports[r].closedInLoop =>
            /\ exports[r].pc # "done"
            /\ ~InProgress(exports[r]) =>
                  /\ ~EncoderOpen(exports[r].videoEncoder)
                  /\ ~EncoderOpen(exports[r].audioEncoder)

\* C3: when an invocation has ended (success, or an error after its encoders were
\* configured, or cancellation), every encoder it created is closed
C3_EncodersReleased ==
    \A r \in RunIds :
        ( /\ exports[r].pc \in {"done", "failed"}
          /\ exports[r].videoEncoder # "unconfigured"
          /\ exports[r].audioEncoder # "unconfigured" )
        => /\ exports[r].videoEncoder \in {"null", "closed"}
           /\ exports[r].audioEncoder \in {"null", "closed"}

\* C4: every VideoFrame renderFrame returned has been closed when startExport
\* next suspends or ends, also when encode throws
C4_FramesClosed ==
    \A r \in RunIds : exports[r].framesClosed = exports[r].framesCreated

\* an encoder that reported an error (closed before its flush was awaited)
Errored(run) ==
    \/ run.pc \in {"mix", "render", "flushV"} /\ run.videoEncoder = "closed"
    \/ run.pc \in {"mix", "render", "flushV", "flushA"} /\ run.audioEncoder = "closed"

\* C5: any error, thrown or reported through an encoder's error callback, aborts the
\* session: when the invocation fails the dialog is not running and not complete, a
\* message is shown and the invocation has set no downloadUrl; an invocation with
\* an errored encoder goes nowhere but to the failed state
C5_ErrorAborts ==
    [][\A r \in RunIds :
          /\ (exports[r].pc # "failed" /\ exports'[r].pc = "failed")
                => /\ ~ve'.isExporting
                   /\ ~ve'.isComplete
                   /\ veToast' = "Export failed"
                   /\ ve'.downloadUrl # r
          /\ Errored(exports[r])
                => Errored(exports'[r]) \/ exports'[r].pc = "failed"]_vars

\* C6: for a non-empty timeline whose export completes, totalFrames is
\* ceil(totalDuration * 30), totalDuration the greatest start + duration, and
\* renderFrame was invoked totalFrames times, at 0, 1/30, 2/30, ... in that order
C6_FrameCount ==
    \A r \in RunIds :
        exports[r].pc = "done" =>
            LET n == exports[r].totalFrames
                ends == {timelineItems[k].start + timelineItems[k].duration :
                            k \in 1..Len(timelineItems)}
                d == CHOOSE e \in ends : \A x \in ends : x <= e
                log == exports[r].renderLog
            IN  /\ n * TicksPerSecond >= d * 30
                /\ (n - 1) * TicksPerSecond < d * 30
                /\ Len(log) = n
                /\ \A k \in 1..Len(log) : log[k] * 30 = (k - 1) * TicksPerSecond
                /\ \A k \in 1..(Len(log) - 1) : log[k] < log[k + 1]

C6_Witness ==
    \E r \in RunIds :
        /\ exports[r].pc = "done"
        /\ Len(timelineItems) = 2
        /\ exports[r].totalFrames > 30
        /\ Len(exports[r].renderLog) = exports[r].totalFrames

\* C7: on the WebCodecs path every frame renderFrame returned is submitted to the
\* video encoder once, in strictly increasing timestamp order, frame i as a
\* keyframe exactly when i is a multiple of 30
C7_EncodeOrder ==
    \A r \in RunIds :
        platform.webCodecs =>
            LET log == exports[r].encodeLog
                rendered == exports[r].renderLog
            IN  /\ Len(log) = exports[r].framesCreated
                /\ Len(log) <= Len(rendered)
                /\ exports[r].pc \notin {"render", "failed"} => Len(log) = Len(rendered)
                /\ exports[r].pc = "render" => Len(log) = Len(rendered) - 1
                /\ \A k \in 1..Len(log) :
                      /\ log[k].keyFrame <=> ((k - 1) % 30 = 0)
                      /\ log[k].timestamp = (rendered[k] * 1000000) \div TicksPerSecond
                /\ \A k \in 1..(Len(log) - 1) : log[k].timestamp < log[k + 1].timestamp

C7_Witness ==
    \E r \in RunIds :
        /\ platform.webCodecs
        /\ exports[r].pc = "done"
        /\ Len(exports[r].encodeLog) = 31
        /\ exports[r].encodeLog[31].keyFrame
        /\ ~exports[r].encodeLog[30].keyFrame

----------------------------------------------------------------------------
(* Claims about both dialogs *)

VeSession(v) == <<v.progress, v.stage, v.isExporting, v.isComplete, v.downloadUrl>>

AeSession(a) ==
    <<a.isExporting, a.exportProgress, a.overallProgress, a.currentStage, a.zipFile>>

\* C8: closing either dialog while its export is running discards the session state
\* (status, progress, stage, artifact) only after the user has confirmed a prompt;
\* if the user declines nothing changes and the export keeps running
C8_ConfirmBeforeDiscard ==
    [][/\ (ve.isExporting /\ timers' < timers /\ VeSession(ve') # VeSession(ve))
            => confirmPrompt = "shown"
       /\ (ae.isExporting /\ ae.isOpen /\ AeSession(ae') # AeSession(ae) /\ aeRuns' = aeRuns)
            => confirmPrompt = "shown"
       /\ (confirmPrompt = "shown" /\ confirmPrompt' = "none" /\ ae'.isOpen)
            => UNCHANGED <<ae, aeRuns>>]_vars

InputErrors ==
    {"No scenes to export",
     "Groq API key is required for voiceover generation",
     "ElevenLabs API key is required for background music generation"}

\* C9: startExport on invalid input (empty timeline; no scenes, empty Groq key,
\* empty ElevenLabs key) reports an error and changes no session state, loads no
\* encoder, calls no external service and starts no invocation
C9_InvalidInput ==
    [][/\ (veToast' = "Nothing to export" /\ veToast' # veToast)
            => UNCHANGED <<ve, exports, ffmpegLoaded, loadCalls, timers, revoked>>
       /\ (aeToast' \in InputErrors /\ aeToast' # aeToast)
            => UNCHANGED <<ae, aeRuns, aeCalls>>
       /\ (exports' # exports \/ loadCalls' # loadCalls \/ (~ve.isExporting /\ ve'.isExporting))
            => Len(timelineItems) > 0
       /\ (aeRuns' # aeRuns \/ aeCalls' # aeCalls \/ (~ae.isExporting /\ ae'.isExporting))
            => (scenes > 0 /\ ae.groqApiKey # "" /\ ae.elevenlabsApiKey # "")
       /\ (ae.groqApiKey = "" /\ scenes > 0 /\ aeToast' # aeToast)
            => aeToast' = "Groq API key is required for voiceover generation"
       /\ (Len(timelineItems) = 0 /\ veToast' # veToast)
            => veToast' = "Nothing to export"]_vars

C9_Witness ==
    /\ scenes > 0
    /\ ae.groqApiKey = "" /\ ae.elevenlabsApiKey = "key"
    /\ aeToast = "Groq API key is required for voiceover generation"
    /\ ae.isOpen /\ ~ae.isExporting
    /\ ae.exportProgress = <<>>
    /\ aeCalls.speech = 0 /\ aeCalls.sound = 0 /\ aeCalls.fetch = 0

----------------------------------------------------------------------------
(* Claims about the asset export dialog *)

StepAsset(run) ==
    CASE run.pc = "visual" -> VisualAsset(run.i)
      [] run.pc = "voice" -> "voiceover"
      [] run.pc = "music" -> "background"
      [] OTHER -> "none"

StatusOf(progress, k, b) ==
    IF k \in DOMAIN progress /\ b \in DOMAIN progress[k]
    THEN progress[k][b].status
    ELSE "absent"

\* C10: a failed step (visual, voiceover, background music) marks that asset of that
\* scene as error and no other asset (the next step's asset goes to processing), the
\* invocation goes on to its next step, fails only in the packaging step, and when
\* it is done every scene was processed and the project archive is published
C10_StepFailureIsolated ==
    [][\A r \in DOMAIN aeRuns :
          LET run == aeRuns[r]
              a == StepAsset(run)
              next == CASE run.pc = "visual" -> "voiceover"
                        [] run.pc = "voice" -> "background"
                        [] OTHER -> "none"
          IN  /\ ( /\ a # "none"
                   /\ aeRuns'[r] # run
                   /\ StatusOf(ae'.exportProgress, run.i, a) = "error" )
                  => /\ \A k \in 0..MaxScenes, b \in AssetTypes :
                           (<<k, b>> # <<run.i, a>> /\ <<k, b>> # <<run.i, next>>)
                              => StatusOf(ae'.exportProgress, k, b)
                                    = StatusOf(ae.exportProgress, k, b)
                     /\ next # "none"
                          => StatusOf(ae'.exportProgress, run.i, next) = "processing"
                     /\ aeRuns'[r].pc = CASE run.pc = "visual" -> "voice"
                                          [] run.pc = "voice" -> "music"
                                          [] OTHER -> "scenezip"
                     /\ aeRuns'[r].i = run.i
              /\ (run.pc # "failed" /\ aeRuns'[r].pc = "failed") => run.pc = "package"
              /\ (run.pc # "done" /\ aeRuns'[r].pc = "done")
                  => /\ run.i = scenes
                     /\ DOMAIN run.folders = SceneIds
                     /\ ae'.zipFile = {[folders |-> run.folders, manifest |-> Manifest]}]_vars

C10_Witness ==
    \E r \in DOMAIN aeRuns :
        /\ scenes = 2
        /\ aeRuns[r].pc = "done"
        /\ ae.zipFile # {}
        /\ StatusOf(ae.exportProgress, 0, "voiceover") = "error"
        /\ StatusOf(ae.exportProgress, 0, "background") = "completed"
        /\ StatusOf(ae.exportProgress, 1, "voiceover") = "completed"

\* the generation calls an invocation at step pc of scene i has issued so far
IssuedCalls(run, kinds) == run.i + (IF run.pc \in kinds THEN 1 ELSE 0)

SequentialCalls(run, calls) ==
    /\ calls.speech = IssuedCalls(run, {"voice", "music", "scenezip"})
    /\ calls.sound = IssuedCalls(run, {"music", "scenezip"})

\* C11: an asset export goes through the scenes in index order and, in a scene,
\* through visual, voiceover, background music (then the scene archive); no step of
\* scene i+1 starts before the music step of scene i has resolved, and a generation
\* call is issued only when the one before it has resolved
C11_SequentialScenes ==
    [][\A r \in DOMAIN aeRuns :
          LET run == aeRuns[r]
              new == aeRuns'[r]
          IN  /\ SequentialCalls(run, aeCalls)
              /\ SequentialCalls(new, aeCalls')
              /\ (new.pc # run.pc \/ new.i # run.i) =>
                    CASE run.pc = "none" -> new.i = 0 /\ new.pc \in {"visual", "voice"}
                      [] run.pc = "visual" -> new.i = run.i /\ new.pc = "voice"
                      [] run.pc = "voice" -> new.i = run.i /\ new.pc = "music"
                      [] run.pc = "music" -> new.i = run.i /\ new.pc = "scenezip"
                      [] run.pc = "scenezip" ->
                            /\ new.i = run.i + 1
                            /\ IF new.i < scenes
                               THEN new.pc \in {"visual", "voice"}
                               ELSE new.pc = "package"
                      [] run.pc = "package" -> new.i = run.i /\ new.pc \in {"done", "failed"}
                      [] OTHER -> FALSE]_vars

C11_Witness ==
    \E r \in DOMAIN aeRuns :
        /\ scenes = 2
        /\ aeRuns[r].pc = "voice" /\ aeRuns[r].i = 1
        /\ aeCalls.speech = 2 /\ aeCalls.sound = 1

\* C12: in every reachable state a scene whose four assets are all pending is not
\* reported downloadable, and a scene with a completed asset, an error asset and the
\* others pending is reported downloadable
C12_Downloadable ==
    \A i \in DOMAIN ae.exportProgress :
        LET assets == ae.exportProgress[i]
            statuses == {assets[a].status : a \in DOMAIN assets}
        IN  DOMAIN assets = AssetTypes =>
              /\ statuses = {"pending"} => ~isSceneDownloadable(assets)
              /\ ( /\ "completed" \in statuses
                    /\ "error" \in statuses
                    /\ statuses \subseteq {"completed", "error", "pending"} )
                  => isSceneDownloadable(assets)

AssetExportsInProgress == {r \in DOMAIN aeRuns : AeInProgress(aeRuns[r])}

\* C13: at most one invocation of the asset exporter's startExport is executing at
\* any time, also after a confirmed close followed by reopening the dialog
C13_SingleAssetExport == Cardinality(AssetExportsInProgress) <= 1

\* C14: once the user has confirmed closing the dialog during an export, the
\* cancelled invocation issues no further external call, does not write the
\* per-scene status records again and never publishes a project archive
C14_CancelStops ==
    [][\A r \in DOMAIN aeRuns :
          ( /\ aeRuns[r].cancelled
            /\ (aeRuns'[r].pc # aeRuns[r].pc \/ aeRuns'[r].i # aeRuns[r].i) )
          => /\ aeCalls' = aeCalls
             /\ ae'.exportProgress = ae.exportProgress
             /\ ae'.zipFile = {}]_vars

\* C15: while one asset export session is running, the overall progress percentage
\* never decreases
C15_ProgressMonotonic ==
    [][(ae.isExporting /\ ae'.isExporting)
          => ae'.overallProgress >= ae.overallProgress]_vars

----------------------------------------------------------------------------
(* Claims about the scene archives *)

\* C17: a request for the archive of a scene that an earlier request has built and
\* cached is served from the cache: it starts no createSceneZip (no fetch, no
\* packaging), saves the cached archive and leaves the cache as it is; and a request
\* that builds the archive caches what it saves
C17_CachedDownload ==
    [][\A d \in DOMAIN aeDownloads' :
          LET new == aeDownloads'[d]
              i == new.scene
          IN  /\ (d \notin DOMAIN aeDownloads /\ i \in DOMAIN ae.sceneZipFiles)
                    => /\ new.pc = "done"
                       /\ new.saved = ae.sceneZipFiles[i]
                       /\ ae'.sceneZipFiles = ae.sceneZipFiles
                       /\ \A q \in DOMAIN aeDownloads : aeDownloads'[q] = aeDownloads[q]
              /\ (d \in DOMAIN aeDownloads /\ aeDownloads[d].pc = "build" /\ new.pc = "done")
                    => /\ i \in DOMAIN ae'.sceneZipFiles
                       /\ ae'.sceneZipFiles[i] = new.saved]_vars

C17_Witness ==
    /\ Len(aeDownloads) = 2
    /\ aeDownloads[1].scene = aeDownloads[2].scene
    /\ aeDownloads[1].pc = "done" /\ aeDownloads[1].captured # <<>>
    /\ aeDownloads[2].pc = "done" /\ aeDownloads[2].captured = <<>>
    /\ aeDownloads[2].saved = aeDownloads[1].saved
    /\ "voiceover.mp3" \in aeDownloads[2].saved

\* the files the claim expects in the archive of a scene with these asset statuses
ExpectedSceneZip(progress, i) ==
    (IF StatusOf(progress, i, "video") = "completed" THEN {"visual.mp4"}
     ELSE IF StatusOf(progress, i, "preview") = "completed" THEN {"visual.jpg"}
     ELSE {})
    \cup (IF StatusOf(progress, i, "voiceover") = "completed" THEN {"voiceover.mp3"} ELSE {})
    \cup (IF StatusOf(progress, i, "background") = "completed" THEN {"bgmusic.mp3"} ELSE {})
    \cup {"scene-info.json"}

\* C18: when the scene archive step of scene i ends (no fetch or packaging having
\* failed, the export not cancelled), the archive of scene i is cached and holds the
\* visual, voiceover and background music that are completed in this run, and
\* scene-info.json
C18_SceneArchive ==
    [][\A r \in DOMAIN aeRuns :
          LET run == aeRuns[r]
              new == aeRuns'[r]
          IN  ( /\ run.pc = "scenezip" /\ new.pc # "scenezip"
                /\ ~run.cancelled
                /\ run.i \notin new.zipFailed )
              => /\ run.i \in DOMAIN ae'.sceneZipFiles
                 /\ ae'.sceneZipFiles[run.i] = ExpectedSceneZip(ae.exportProgress, run.i)]_vars

\* C19: when an export with valid keys completes and no step has failed, the project
\* archive holds one folder per scene, with voiceover.mp3, bgmusic.mp3 and visual.mp4
\* if the scene has a video URL, otherwise visual.jpg if it has a preview URL, and a
\* manifest whose hasPreview / hasVideo flags tell whether the input URLs exist
C19_ProjectArchive ==
    \A r \in DOMAIN aeRuns :
        ( /\ aeRuns[r].pc = "done"
          /\ ~aeRuns[r].cancelled
          /\ ae.zipFile # {}
          /\ DOMAIN ae.exportProgress = SceneIds
          /\ \A i \in SceneIds, a \in AssetTypes :
                StatusOf(ae.exportProgress, i, a) \in {"completed", "pending"} )
        => ae.zipFile =
              {[folders |->
                    [i \in 0..(scenes - 1) |->
                        {"voiceover.mp3", "bgmusic.mp3"}
                        \cup (IF i \in videoUrls THEN {"visual.mp4"}
                              ELSE IF i \in previewUrls THEN {"visual.jpg"}
                              ELSE {})],
                manifest |->
                    [i \in 0..(scenes - 1) |->
                        [hasPreview |-> i \in previewUrls, hasVideo |-> i \in videoUrls]]]}

C19_Witness ==
    \E r \in DOMAIN aeRuns :
        /\ scenes = 2
        /\ previewUrls = {0, 1} /\ videoUrls = {1}
        /\ aeRuns[r].pc = "done" /\ ~aeRuns[r].cancelled
        /\ ae.zipFile # {}
        /\ StatusOf(ae.exportProgress, 0, "video") = "pending"
        /\ \A i \in SceneIds, a \in AssetTypes \ {"video"} :
              StatusOf(ae.exportProgress, i, a) = "completed"

----------------------------------------------------------------------------
(* Claims about the compositor *)

\* C20: the frame renderFrame(items, t) paints is an opaque black canvas overlaid with
\* exactly the items of kind video or image whose interval [start, start + duration)
\* contains t, in list order, so that the last such item is the one visible
C20_PaintersOrder ==
    \A r \in RunIds :
        \A k \in 1..Len(exports[r].canvasLog) :
            LET t == exports[r].renderLog[k]
                canvas == exports[r].canvasLog[k]
                active == {j \in 1..Len(timelineItems) :
                              /\ timelineItems[j].type \in {"video", "image"}
                              /\ timelineItems[j].start <= t
                              /\ t < timelineItems[j].start + timelineItems[j].duration}
            IN  /\ canvas[1] = 0
                /\ {canvas[m] : m \in 2..Len(canvas)} = active
                /\ \A m \in 2..(Len(canvas) - 1) : canvas[m] < canvas[m + 1]

----------------------------------------------------------------------------
(* Claims about the encoder configuration *)

\* C21: for every size and quality preset the video encoder is configured with the
\* preset's dimensions (480p 854x480, 720p 1280x720, 1080p 1920x1080) and with the
\* bitrate trunc(width * height * 0.1 * m), m = 1.5 high, 1.0 standard, 0.5 draft;
\* 92160 for 720p / standard
C21_EncoderPreset ==
    \A r \in RunIds :
        exports[r].videoEncoder # "null" =>
            LET cfg == exports[r].videoConfig
                hundredths == CASE cfg.quality = "high" -> 15
                            [] cfg.quality = "standard" -> 10
                            [] cfg.quality = "draft" -> 5
                exact == cfg.width * cfg.height * hundredths
            IN  /\ cfg.size \in {"480p", "720p", "1080p"}
                /\ cfg.quality \in {"draft", "standard", "high"}
                /\ cfg.size = "480p" => (cfg.width = 854 /\ cfg.height = 480)
                /\ cfg.size = "720p" => (cfg.width = 1280 /\ cfg.height = 720)
                /\ cfg.size = "1080p" => (cfg.width = 1920 /\ cfg.height = 1080)
                /\ cfg.bitrate * 100 <= exact
                /\ exact < (cfg.bitrate + 1) * 100
                /\ (cfg.size = "720p" /\ cfg.quality = "standard") => cfg.bitrate = 92160

C21_Witness ==
    \E r \in RunIds :
        /\ exports[r].pc = "done"
        /\ exports[r].videoEncoder = "closed"
        /\ exports[r].videoConfig.size = "1080p"
        /\ exports[r].videoConfig.quality = "high"
        /\ exports[r].videoConfig.bitrate = 311040

----------------------------------------------------------------------------
(* Claims about the video generation functions *)

TimeoutMessages ==
    {"Video generation timed out after 10 minutes",
     "Video generation timed out after 15 minutes"}

\* C22: a generateWanVideo (generatePikaVideo) call whose provider request has not
\* resolved after 10 (15) minutes rejects with an error that only a timeout produces;
\* a call that passes the key check issues exactly one provider request and no call
\* ever issues another one, whatever the failure
C22_TimeoutNoRetry ==
    [][/\ \A c \in DOMAIN videoCalls' :
             LET new == videoCalls'[c]
                 fresh == c \notin DOMAIN videoCalls
                 limit == IF new.model = "wan" THEN 10 * 60 * 1000 ELSE 15 * 60 * 1000
             IN  /\ new.requests = IF new.apiKey = "" THEN 0 ELSE 1
                 /\ (~fresh /\ videoCalls[c].pc = "race" /\ videoCalls[c].timer = "pending"
                       /\ new.timer = "fired")
                       => /\ new.pc = "rejected"
                          /\ new.error \in TimeoutMessages
                          /\ now >= new.started + limit
                 /\ (new.error \in TimeoutMessages /\ (fresh \/ videoCalls[c].error # new.error))
                       => /\ ~fresh
                          /\ videoCalls[c].pc = "race"
                          /\ videoCalls[c].provider = "pending"
                          /\ new.timer = "fired"
                 /\ (~fresh /\ videoCalls[c].pc # "race") =>
                       /\ new.pc = videoCalls[c].pc
                       /\ new.error = videoCalls[c].error
                       /\ new.result = videoCalls[c].result
       /\ now' > now =>
             \A c \in DOMAIN videoCalls :
                 videoCalls[c].pc = "race" =>
                     now < videoCalls[c].started
                            + (IF videoCalls[c].model = "wan" THEN 10 * 60 * 1000
                               ELSE 15 * 60 * 1000)]_vars

C22_Witness ==
    /\ Len(videoCalls) = 2
    /\ videoCalls[1].model = "wan" /\ videoCalls[1].pc = "rejected"
    /\ videoCalls[1].error = "Video generation timed out after 10 minutes"
    /\ videoCalls[1].requests = 1 /\ videoCalls[1].provider = "pending"
    /\ videoCalls[2].model = "pika" /\ videoCalls[2].pc = "rejected"
    /\ videoCalls[2].error = "Video generation timed out after 15 minutes"
    /\ videoCalls[2].requests = 1

----------------------------------------------------------------------------
(* Claims about the phases of a video export *)

\* C23: the mux step begins only after audio mixing has completed, all totalFrames
\* frames have been rendered and (with WebCodecs) submitted, and every encoder the
\* invocation created has been flushed and closed; the output is read only after the
\* mux step has returned
C23_MuxLast ==
    [][\A r \in RunIds :
          LET run == exports[r]
              new == exports'[r]
          IN  /\ (run.pc # "mux" /\ new.pc = "mux") =>
                    /\ new.mixedAudio.rendered
                    /\ run.pc \notin {"none", "load", "mix"}
                    /\ Len(new.renderLog) = new.totalFrames
                    /\ new.frameIndex = new.totalFrames
                    /\ platform.webCodecs =>
                          /\ Len(new.encodeLog) = new.totalFrames
                          /\ new.videoEncoder = "closed"
                          /\ "videoEncoder" \in new.flushed
                    /\ (platform.webCodecs /\ platform.audioEncoder) =>
                          /\ new.audioEncoder = "closed"
                          /\ "audioEncoder" \in new.flushed
                    /\ ~new.outputRead
              /\ (~run.outputRead /\ new.outputRead) => run.pc = "mux"
              /\ new.pc = "done" => new.outputRead]_vars

C23_Witness ==
    \E r \in RunIds :
        /\ platform.webCodecs /\ platform.audioEncoder
        /\ exports[r].pc = "done"
        /\ exports[r].outputRead
        /\ exports[r].totalFrames = 31
        /\ Len(exports[r].encodeLog) = 31
        /\ exports[r].flushed = {"videoEncoder", "audioEncoder"}
        /\ exports[r].mixedAudio.rendered

\* the percentage range allocated to the phase an invocation is in
PhaseRange(pc) ==
    CASE pc = "load" -> 0..5
      [] pc = "mix" -> 5..20
      [] pc = "render" -> 20..80
      [] pc \in {"flushV", "flushA"} -> 80..85
      [] pc = "mux" -> 85..95
      [] pc = "done" -> 95..100
      [] OTHER -> 0..100

\* C24: throughout a video export session the progress stays within 0..100, never
\* decreases and lies in the range of the current phase (0-5 initialization, 5-20
\* setup, 20-80 frame loop with floor(20 + frameIndex / totalFrames * 60), 80-85
\* flush, 85-95 mux, 95-100 artifact); it is 100 only when the session is complete
C24_ProgressPhases ==
    [][/\ ve'.progress \in 0..100
       /\ ve'.progress = 100 => ve'.isComplete
       /\ \A r \in RunIds :
             LET run == exports[r]
                 new == exports'[r]
             IN  /\ InProgress(new) =>
                       /\ ve'.progress \in PhaseRange(new.pc)
                       /\ new.pc = "render" =>
                             /\ ve'.progress * new.totalFrames
                                   <= 20 * new.totalFrames + new.frameIndex * 60
                             /\ (ve'.progress + 1) * new.totalFrames
                                   > 20 * new.totalFrames + new.frameIndex * 60
                 /\ (run.pc # "done" /\ new.pc = "done") => ve'.progress = 100
                 /\ InProgress(run) => ve'.progress >= ve.progress]_vars

\* Math.ceil(frames / 30): the seconds of content that frames rendered frames begin
SecondsBegun(frames) == (frames + 29) \div 30

\* C25: during the frame loop progress and stage updates are coarse: at most one
\* progress update and one stage update per 30 rendered frames (one second of
\* content), not one per frame
C25_CoarseUpdates ==
    \A r \in RunIds :
        LET frames == Len(exports[r].renderLog)
            progressValues == {exports[r].progressLog[k] : k \in 1..Len(exports[r].progressLog)}
        IN  /\ Len(exports[r].stageLog) <= SecondsBegun(frames)
            /\ Cardinality(progressValues) <= SecondsBegun(frames)

\* C25 as amended: during the frame loop the stage label is set once per 30 rendered
\* frames, at the frames whose index is a multiple of 30 ('Rendering frame 30j + 1 of
\* totalFrames'); the progress is set on every frame, to floor(20 + frameIndex /
\* totalFrames * 60), so that it takes whole percentages between 20 and 80 only
C25_StageCoarse ==
    \A r \in RunIds :
        LET frames == Len(exports[r].renderLog)
            n == exports[r].totalFrames
            stages == exports[r].stageLog
            progresses == exports[r].progressLog
        IN  /\ Len(stages) = SecondsBegun(frames)
            /\ \A j \in 1..Len(stages) :
                  stages[j] = [label |-> "Rendering frame", n |-> 30 * (j - 1) + 1, of |-> n]
            /\ Len(progresses) = frames
            /\ \A k \in 1..Len(progresses) :
                  /\ progresses[k] \in 20..79
                  /\ progresses[k] * n <= 20 * n + (k - 1) * 60
                  /\ (progresses[k] + 1) * n > 20 * n + (k - 1) * 60

C25_Witness ==
    \E r \in RunIds :
        /\ exports[r].pc = "done"
        /\ Len(exports[r].renderLog) = 31
        /\ Len(exports[r].stageLog) = 2
        /\ Len(exports[r].progressLog) = 31
        /\ exports[r].progressLog[31] = 78

----------------------------------------------------------------------------
(* Claims about failing timeline items *)

----------------------------------------------------------------------------
(* Claims about the state of the asset export dialog *)

\* C27: in every reachable state every per-scene record of exportProgress has all
\* four asset slots (preview, video, voiceover, background), each with a status among
\* pending, processing, completed and error, also after the dialog was closed (state
\* reset to empty) while an export is still executing its status updates
C27_FourSlots ==
    \A i \in DOMAIN ae.exportProgress :
        /\ DOMAIN ae.exportProgress[i] = AssetTypes
        /\ \A a \in DOMAIN ae.exportProgress[i] :
              ae.exportProgress[i][a].status \in {"pending", "processing", "completed", "error"}

----------------------------------------------------------------------------
(* Claims about the timer and the encoder library of the video export dialog *)

\* C28: the reset that handleClose schedules 300 ms after closing never clobbers a
\* later session: when the dialog is reopened and an export is started before the
\* timer fires, that timer leaves the status (isExporting, isComplete), the
\* progress, the stage and the download URL of the new session as they are
C28_OldTimerHarmless ==
    [][(/\ timers' < timers
        /\ \E r \in RunIds : exports[r].pc # "none" /\ exports[r].oldTimers > 0)
          => VeSession(ve') = VeSession(ve)]_vars

\* C29: across any sequence and interleaving of video exports ffmpegInstance.load()
\* is invoked at most once, and ffmpegLoaded is true only after a load has
\* completed successfully
C29_LoadOnce ==
    [][/\ loadCalls' <= 1
       /\ (~ffmpegLoaded /\ ffmpegLoaded') =>
             \E r \in RunIds :
                 /\ exports[r].pc = "load" /\ exports'[r].pc # "load"
                 /\ exports'[r].totalFrames > 0      \* past the await: the settings are read
       /\ ffmpegLoaded => ffmpegLoaded']_vars

----------------------------------------------------------------------------
(* Claims about the storyboard page *)

BatchRunning(ops) == \E o \in DOMAIN ops : ops[o].kind = "batch" /\ ops[o].pc = "await"

\* C30: while handleGenerateAllPreviews is running, from its start until the preview
\* generation of the last scene has returned, isLoading stays true, so that no other
\* generation action guarded by isLoading (a second batch, a single preview or video
\* generation, a reference upload) is started meanwhile
C30_BatchKeepsLoading ==
    [][/\ BatchRunning(pageOps') => page'.isLoading
       /\ (Len(pageOps') > Len(pageOps)
             /\ pageOps'[Len(pageOps')].kind \in {"batch", "preview", "video", "upload"})
          => ~BatchRunning(pageOps)]_vars

====
